---- MODULE Spec2Model ----
(***************************************************************************)
(* NormDecimal (src/src/lib.rs): a wrapper around rust_decimal::Decimal    *)
(* that stores the decimal in normalized form.                             *)
(*                                                                         *)
(* A Decimal is a sign, an unsigned mantissa and a scale (the number of    *)
(* fractional digits).  The engine's width (96-bit mantissa, scale 0..28)  *)
(* is scaled down to MaxMantissa and MaxScale; every engine operation is   *)
(* modelled at that width, with the engine's rounding and overflow.        *)
(*                                                                         *)
(* The machine is one program holding a NormDecimal `self`.  From pc =     *)
(* "ready" it calls one operation of the wrapper; the state after the call *)
(* (pc = "returned") records the operation, its converted argument, the    *)
(* receiver before the call, the value returned and how the call ended.    *)
(* Continue goes on with the receiver or with the returned value.  A panic *)
(* ends the run.                                                           *)
(***************************************************************************)
EXTENDS Integers, Sequences, FiniteSets

\* Largest mantissa of the engine (2^96 - 1 in rust_decimal), scaled down.
MaxMantissa == 24
\* Largest scale of the engine (28 in rust_decimal), scaled down.
MaxScale == 2
\* Largest magnitude of an integer primitive (narrower than the mantissa).
MaxPrim == 6
\* Longest sequence handed to sum and product.
MaxLen == 3

VARIABLES pc, self, old, arg, flag, res, op, status, text, items, ord, borsh

vars == <<pc, self, old, arg, flag, res, op, status, text, items, ord, borsh>>

----------------------------------------------------------------------------
(* The engine: rust_decimal::Decimal, as the wrapper uses it.              *)

RECURSIVE Pow10(_)
Pow10(k) == IF k = 0 THEN 1 ELSE 10 * Pow10(k - 1)

Dec(n, m, s) == [neg |-> n, m |-> m, scale |-> s]

RawDecimals == [neg : BOOLEAN, m : 0..MaxMantissa, scale : 0..MaxScale]

\* Decimal::ZERO and Decimal::ONE
DecimalZero == Dec(FALSE, 0, 0)
DecimalOne == Dec(FALSE, 1, 0)

IsZero(d) == d.m = 0

\* Decimal::normalize: zero becomes the plain zero (sign and scale
\* cleared); otherwise trailing fractional zeros are stripped.
RECURSIVE StripZeros(_)
StripZeros(d) ==
    IF d.scale > 0 /\ d.m % 10 = 0
    THEN StripZeros(Dec(d.neg, d.m \div 10, d.scale - 1))
    ELSE d

Normalize(d) == IF IsZero(d) THEN DecimalZero ELSE StripZeros(d)

\* Decimal::set_sign_positive / set_sign_negative: only the sign bit.
DecimalSetSignPositive(d, positive) == [d EXCEPT !.neg = ~positive]
DecimalSetSignNegative(d, negative) == DecimalSetSignPositive(d, ~negative)

\* Neg for Decimal: the sign bit is flipped, also on zero.
DecimalNeg(d) == DecimalSetSignNegative(d, ~d.neg)

\* Decimal::from(integer primitive)
DecimalFromInt(i) == Dec(i < 0, IF i < 0 THEN -i ELSE i, 0)

\* Ord for Decimal (cmp_impl): zeros are equal whatever their sign and
\* scale, differing signs decide, else the mantissas are compared at a
\* common scale.
CmpNat(x, y) == IF x < y THEN "Less" ELSE IF x > y THEN "Greater" ELSE "Equal"

Reverse(o) == IF o = "Less" THEN "Greater" ELSE IF o = "Greater" THEN "Less" ELSE o

DecimalCmp(d1, d2) ==
    IF IsZero(d2)
    THEN (IF IsZero(d1) THEN "Equal" ELSE IF d1.neg THEN "Less" ELSE "Greater")
    ELSE IF IsZero(d1)
    THEN (IF d2.neg THEN "Greater" ELSE "Less")
    ELSE IF d1.neg # d2.neg
    THEN (IF d1.neg THEN "Less" ELSE "Greater")
    ELSE LET S == IF d1.scale > d2.scale THEN d1.scale ELSE d2.scale
             o == CmpNat(d1.m * Pow10(S - d1.scale), d2.m * Pow10(S - d2.scale))
         IN  IF d1.neg THEN Reverse(o) ELSE o

\* Decimal::max / Decimal::min (inherent): the receiver wins a tie.
DecimalMax(d1, d2) == IF DecimalCmp(d1, d2) = "Less" THEN d2 ELSE d1
DecimalMin(d1, d2) == IF DecimalCmp(d1, d2) = "Greater" THEN d2 ELSE d1

\* Round-half-even division of naturals.
RoundHalfEven(n, den) ==
    LET q == n \div den
        r == n % den
    IN  IF 2 * r > den \/ (2 * r = den /\ q % 2 = 1) THEN q + 1 ELSE q

Ok(d) == [st |-> "ok", d |-> d]
Overflow == [st |-> "overflow", d |-> DecimalZero]
DivByZero == [st |-> "div_by_zero", d |-> DecimalZero]

\* The engine's rescale: the exact magnitude mag / 10^scale is rounded to
\* the largest scale at which the mantissa fits; overflow when it does not
\* fit even at scale 0.
RECURSIVE Fit(_, _, _, _)
Fit(n, mag, scale, k) ==
    LET q == RoundHalfEven(mag, Pow10(k))
    IN  IF scale - k <= MaxScale /\ q <= MaxMantissa
        THEN Ok(Dec(n, q, scale - k))
        ELSE IF k >= scale THEN Overflow
        ELSE Fit(n, mag, scale, k + 1)

Signed(d, S) == (IF d.neg THEN -1 ELSE 1) * d.m * Pow10(S - d.scale)

\* Add for Decimal (add_sub_internal): a zero operand returns the other
\* operand as it is; otherwise the operands are aligned and added, and the
\* sum is rescaled when it does not fit.
DecimalAdd(d1, d2) ==
    IF IsZero(d1) THEN Ok(d2)
    ELSE IF IsZero(d2) THEN Ok(d1)
    ELSE LET S == IF d1.scale > d2.scale THEN d1.scale ELSE d2.scale
             M == Signed(d1, S) + Signed(d2, S)
         IN  IF M = 0 THEN Ok(Dec(d1.neg, 0, S))
             ELSE Fit(M < 0, IF M < 0 THEN -M ELSE M, S, 0)

\* Sub for Decimal: 0 - x negates a non-zero x; else addition of -x.
DecimalSub(d1, d2) ==
    IF IsZero(d1) THEN Ok(IF IsZero(d2) THEN d2 ELSE DecimalNeg(d2))
    ELSE DecimalAdd(d1, DecimalNeg(d2))

\* Mul for Decimal (mul_impl): a zero operand gives Decimal::ZERO; else
\* the exact product, rescaled when its scale or mantissa does not fit.
DecimalMul(d1, d2) ==
    IF IsZero(d1) \/ IsZero(d2) THEN Ok(DecimalZero)
    ELSE Fit(d1.neg # d2.neg, d1.m * d2.m, d1.scale + d2.scale,
             IF d1.scale + d2.scale > MaxScale
             THEN d1.scale + d2.scale - MaxScale ELSE 0)

\* Div for Decimal (div_impl): the zero divisor is tested first, then the
\* zero dividend; the quotient takes the smallest scale at which it is
\* exact, else the largest scale at which its rounded mantissa fits.
RECURSIVE DivAt(_, _, _, _)
DivAt(n, num, den, k) ==
    LET q == RoundHalfEven(num * Pow10(k), den)
        exact == (num * Pow10(k)) % den = 0
    IN  IF q > MaxMantissa
        THEN (IF k = 0 THEN Overflow
              ELSE Ok(Dec(n, RoundHalfEven(num * Pow10(k - 1), den), k - 1)))
        ELSE IF exact \/ k = MaxScale THEN Ok(Dec(n, q, k))
        ELSE DivAt(n, num, den, k + 1)

DecimalDiv(d1, d2) ==
    IF IsZero(d2) THEN DivByZero
    ELSE IF IsZero(d1) THEN Ok(DecimalZero)
    ELSE DivAt(d1.neg # d2.neg, d1.m * Pow10(d2.scale), d2.m * Pow10(d1.scale), 0)

\* Rem for Decimal (rem_impl): the remainder takes the dividend's sign.
DecimalRem(d1, d2) ==
    IF IsZero(d2) THEN DivByZero
    ELSE IF IsZero(d1) THEN Ok(DecimalZero)
    ELSE LET S == IF d1.scale > d2.scale THEN d1.scale ELSE d2.scale
         IN  Ok(Dec(d1.neg, (d1.m * Pow10(S - d1.scale)) % (d2.m * Pow10(S - d2.scale)), S))

----------------------------------------------------------------------------
(* Text: the engine's Display and FromStr, over sequences of characters.   *)

DigitChars == <<"0", "1", "2", "3", "4", "5", "6", "7", "8", "9">>

IsDigit(c) == \E i \in 1..10 : DigitChars[i] = c
DigitValue(c) == (CHOOSE i \in 1..10 : DigitChars[i] = c) - 1

RECURSIVE Digits(_)
Digits(n) == IF n < 10 THEN <<DigitChars[n + 1]>>
             ELSE Append(Digits(n \div 10), DigitChars[(n % 10) + 1])

RECURSIVE PadLeft(_, _)
PadLeft(s, n) == IF Len(s) >= n THEN s ELSE PadLeft(<<"0">> \o s, n)

\* to_str_internal with the sign: the mantissa's digits, padded so that a
\* digit stands before the point, the point before the last `scale` digits.
DecimalToString(d) ==
    LET ds == PadLeft(Digits(d.m), d.scale + 1)
        ip == SubSeq(ds, 1, Len(ds) - d.scale)
        fp == SubSeq(ds, Len(ds) - d.scale + 1, Len(ds))
    IN  (IF d.neg THEN <<"-">> ELSE <<>>)
        \o ip \o (IF d.scale > 0 THEN <<".">> \o fp ELSE <<>>)

ParseError == [st |-> "error", d |-> DecimalZero]

RECURSIVE AllDigits(_)
AllDigits(s) == s = <<>> \/ (IsDigit(Head(s)) /\ AllDigits(Tail(s)))

\* The parser's digit loop: m and scale so far, whether the point and a
\* digit were seen.  A digit that no longer fits is an error in the integer
\* part; in the fraction it rounds the mantissa (half up) and the rest
\* must be digits.
RECURSIVE ParseDigits(_, _, _, _, _, _)
ParseDigits(s, n, m, scale, point, digit) ==
    IF s = <<>>
    THEN (IF digit THEN Ok(Dec(n /\ m # 0, m, scale)) ELSE ParseError)
    ELSE LET c == Head(s) IN
         IF c = "."
         THEN (IF point THEN ParseError
               ELSE ParseDigits(Tail(s), n, m, scale, TRUE, digit))
         ELSE IF ~IsDigit(c) THEN ParseError
         ELSE LET v == DigitValue(c) IN
              IF m * 10 + v <= MaxMantissa /\ (~point \/ scale < MaxScale)
              THEN ParseDigits(Tail(s), n, m * 10 + v,
                               IF point THEN scale + 1 ELSE scale, point, TRUE)
              ELSE IF ~point THEN ParseError
              ELSE IF ~AllDigits(Tail(s)) THEN ParseError
              ELSE LET r == IF v >= 5 THEN m + 1 ELSE m
                   IN  IF r > MaxMantissa THEN ParseError
                       ELSE Ok(Dec(n /\ r # 0, r, scale))

\* Decimal::from_str
DecimalFromStr(s) ==
    IF s = <<>> THEN ParseError
    ELSE IF Head(s) = "-" THEN ParseDigits(Tail(s), TRUE, 0, 0, FALSE, FALSE)
    ELSE IF Head(s) = "+" THEN ParseDigits(Tail(s), FALSE, 0, 0, FALSE, FALSE)
    ELSE ParseDigits(s, FALSE, 0, 0, FALSE, FALSE)

----------------------------------------------------------------------------
(* The wrapper: NormDecimal(Decimal).  A NormDecimal is modelled by the    *)
(* Decimal it stores.                                                      *)

\* impl From<Decimal> for NormDecimal
\* (faulty variant: the value is wrapped without normalize)
NormFromDecimalUnnormalized(value) == value
NormFromDecimal(value) == Normalize(value)

\* impl From<&Decimal> for NormDecimal
NormFromDecimalRef(value) == Normalize(value)

\* impl From<NormDecimal> for Decimal
DecimalFromNorm(value) == value

\* forward_from_impl!(u8, ..., i64)
NormFromInt(value) == NormFromDecimal(DecimalFromInt(value))

\* NormDecimal::ZERO, NormDecimal::ONE, #[derive(Default)]
ZERO == DecimalZero
ONE == DecimalOne
NormDefault == DecimalZero

\* Result::map(Into::into): a value is wrapped, a failure passes through.
MapInto(r) == IF r.st = "ok" THEN Ok(NormFromDecimal(r.d)) ELSE r

\* impl FromStr for NormDecimal
NormFromStr(s) == MapInto(DecimalFromStr(s))

\* Serialize for Decimal writes its string; Deserialize reads a string or
\* an integer number.
DecimalSerialize(d) == DecimalToString(d)
DecimalDeserialize(s) == DecimalFromStr(s)

\* #[derive(Serialize)] #[serde(transparent)]
\* (faulty variant: the wrapper adds a tag of its own)
NormSerializeTagged(a) == <<"N">> \o DecimalSerialize(a)
NormSerialize(a) == DecimalSerialize(a)

\* impl Deserialize for NormDecimal
NormDeserialize(s) == MapInto(DecimalDeserialize(s))

\* #[cfg_attr(feature = "borsh", derive(BorshDeserialize))]: the decoded
\* Decimal is wrapped as it is.
NormBorshDeserialize(decoded) == decoded

\* impl fmt::Display for NormDecimal
NormDisplay(a) == DecimalToString(a)

\* #[derive(Ord, PartialOrd, Eq, PartialEq)]: the Decimal's own order.
\* (faulty variant: the fields are compared one by one)
NormCmpStructural(a, b) ==
    IF a.neg # b.neg THEN (IF a.neg THEN "Less" ELSE "Greater")
    ELSE IF a.m # b.m THEN CmpNat(a.m, b.m)
    ELSE CmpNat(a.scale, b.scale)
NormCmp(a, b) == DecimalCmp(a, b)

\* set_sign_negative / set_sign_positive
\* (faulty variant: the flag is ignored)
SetSignNegativeAlways(a, negative) == DecimalSetSignNegative(a, TRUE)
SetSignNegative(a, negative) == DecimalSetSignNegative(a, negative)
SetSignPositive(a, positive) == DecimalSetSignPositive(a, positive)

\* max / min: other.into() is the receiver of the engine's max / min.
NormMax(a, other) == NormFromDecimal(DecimalMax(other, a))
NormMin(a, other) == NormFromDecimal(DecimalMin(other, a))

\* impl Add / Sub / Mul / Div / Rem: rhs is rhs.into().0; an engine panic
\* passes through.
\* (faulty variant of add: overflow as soon as aligning an operand to the
\* other's scale does not fit, instead of rounding)
NormAddExact(a, rhs) ==
    IF (a.scale > rhs.scale /\ rhs.m * Pow10(a.scale - rhs.scale) > MaxMantissa)
       \/ (rhs.scale > a.scale /\ a.m * Pow10(rhs.scale - a.scale) > MaxMantissa)
    THEN Overflow ELSE MapInto(DecimalAdd(a, rhs))
NormAdd(a, rhs) == MapInto(DecimalAdd(a, rhs))
NormSub(a, rhs) == MapInto(DecimalSub(a, rhs))
NormMul(a, rhs) == MapInto(DecimalMul(a, rhs))
\* (faulty variant of div: a zero divisor gives zero instead of the panic)
NormDivSubstituting(a, rhs) == IF IsZero(rhs) THEN Ok(DecimalZero) ELSE MapInto(DecimalDiv(a, rhs))
NormDiv(a, rhs) == MapInto(DecimalDiv(a, rhs))
NormRem(a, rhs) == MapInto(DecimalRem(a, rhs))

\* impl Neg
\* (faulty variant: the negated value is not normalized)
NormNegRaw(a) == DecimalNeg(a)
NormNeg(a) == NormFromDecimal(DecimalNeg(a))

\* impl Sum / impl Product: iter.fold(ZERO, Add::add), iter.fold(ONE, Mul::mul)
RECURSIVE FoldAdd(_, _)
FoldAdd(acc, s) ==
    IF acc.st # "ok" \/ s = <<>> THEN acc
    ELSE FoldAdd(NormAdd(acc.d, Head(s)), Tail(s))

RECURSIVE FoldMul(_, _)
FoldMul(acc, s) ==
    IF acc.st # "ok" \/ s = <<>> THEN acc
    ELSE FoldMul(NormMul(acc.d, Head(s)), Tail(s))

\* (faulty variant of sum: the fold starts from ONE)
NormSumFromOne(s) == FoldAdd(Ok(ONE), s)
NormSum(s) == FoldAdd(Ok(ZERO), s)
NormProduct(s) == FoldMul(Ok(ONE), s)

----------------------------------------------------------------------------
(* Inputs.                                                                 *)

IntPrimitives == (-MaxPrim)..MaxPrim

NegZero == Dec(TRUE, 0, 0)

\* The values a NormDecimal can hold: what From<Decimal> produces, with the
\* sign as it is or forced by set_sign_negative / set_sign_positive (which
\* adds the negative zero); with the borsh feature any decoded Decimal.
NormValuesDefault ==
    {NormFromDecimal(d) : d \in RawDecimals}
    \cup {SetSignNegative(NormFromDecimal(d), TRUE) : d \in RawDecimals}
    \cup {SetSignPositive(NormFromDecimal(d), TRUE) : d \in RawDecimals}
NormValuesBorsh == NormValuesDefault \cup RawDecimals
NormValues(b) == IF b THEN NormValuesBorsh ELSE NormValuesDefault

\* Raw Decimals handed where a Decimal operand is converted: with and
\* without trailing zeros, zeros with a sign or a scale.
DecimalSamples ==
    {Dec(FALSE, 10, 1), Dec(TRUE, 20, 1), Dec(FALSE, 0, 1), Dec(TRUE, 0, 0),
     Dec(TRUE, 0, MaxScale), Dec(FALSE, 5, 1), Dec(FALSE, MaxMantissa, 0)}

\* rhs.into() for T = NormDecimal, Decimal and the integer primitives.
RhsConverted ==
    {NormFromDecimal(d) : d \in DecimalSamples}
    \cup {NormFromInt(i) : i \in IntPrimitives}
RhsIntoDefault == NormValuesDefault \cup RhsConverted
RhsIntoBorsh == NormValuesBorsh \cup RhsConverted
RhsInto(b) == IF b THEN RhsIntoBorsh ELSE RhsIntoDefault

\* other.into() of max / min, an Into<Decimal>.
OtherConverted == DecimalSamples \cup {DecimalFromInt(i) : i \in IntPrimitives}
OtherIntoDefault == {DecimalFromNorm(a) : a \in NormValuesDefault} \cup OtherConverted
OtherIntoBorsh == {DecimalFromNorm(a) : a \in NormValuesBorsh} \cup OtherConverted
OtherInto(b) == IF b THEN OtherIntoBorsh ELSE OtherIntoDefault

\* Texts handed to from_str and to deserialize.
Literals ==
    {<<"1", ".", "5">>, <<"1", ".", "5", "0">>, <<"2">>, <<"2", ".", "0">>,
     <<"0", ".", "1", "0">>, <<"-", "0">>, <<"0", ".", "0">>,
     <<"-", "0", ".", "5", "0">>, <<"+", "3">>, <<".", "5">>, <<"4", ".">>,
     <<"0", ".", "1", "2", "5">>, <<"2", ".", "4", "9">>, <<"9", "9", "9">>,
     <<>>, <<"-">>, <<".">>, <<"1", ".", "2", ".", "3">>, <<"1", "x">>}

\* Elements of the sequences handed to sum and product.
ItemSamples ==
    {ONE, Dec(FALSE, 2, 0), Dec(FALSE, 3, 0), Dec(FALSE, 4, 0),
     Dec(FALSE, 5, 1), Dec(FALSE, MaxMantissa, 0)}

ItemSeqs == UNION {[1..n -> ItemSamples] : n \in 0..MaxLen}

----------------------------------------------------------------------------
(* The machine.                                                            *)

NoText == <<>>
NoItems == <<>>

\* The state after a call: the receiver s, the converted argument a, the
\* flag f, the outcome r of a value-returning call (res is empty when the
\* call returned no value), the text t, the sequence its, the ordering od.
Returned(o, s, a, f, r, st, t, its, od) ==
    /\ pc = "ready"
    /\ pc' = "returned"
    /\ op' = o
    /\ self' = s
    /\ old' = self
    /\ arg' = a
    /\ flag' = f
    /\ res' = r
    /\ status' = st
    /\ text' = t
    /\ items' = its
    /\ ord' = od
    /\ UNCHANGED borsh

\* A call that returns a NormDecimal, a Result of one, or panics.
Value(o, a, r, t, its) ==
    Returned(o, self, a, FALSE, IF r.st = "ok" THEN <<r.d>> ELSE <<>>, r.st,
             t, its, "none")

\* A compound assignment *self = *self op rhs: a panic leaves *self alone.
Assign(o, a, r) ==
    Returned(o, IF r.st = "ok" THEN r.d ELSE self, a, FALSE, <<>>, r.st,
             NoText, NoItems, "none")

Init ==
    /\ pc = "ready"
    /\ self = NormDefault
    /\ old = DecimalZero
    /\ arg = DecimalZero
    /\ flag = FALSE
    /\ res = <<>>
    /\ op = "none"
    /\ status = "ok"
    /\ text = NoText
    /\ items = NoItems
    /\ ord = "none"
    /\ borsh = FALSE

InitBorsh ==
    /\ pc = "ready"
    /\ self = NormDefault
    /\ old = DecimalZero
    /\ arg = DecimalZero
    /\ flag = FALSE
    /\ res = <<>>
    /\ op = "none"
    /\ status = "ok"
    /\ text = NoText
    /\ items = NoItems
    /\ ord = "none"
    /\ borsh = TRUE

FromInt ==
    /\ pc = "ready"
    /\ \E value \in IntPrimitives :
        Value("from_int", DecimalFromInt(value), Ok(NormFromInt(value)), NoText, NoItems)

FromDecimal ==
    /\ pc = "ready"
    /\ \E value \in RawDecimals :
        Value("from_decimal", value, Ok(NormFromDecimal(value)), NoText, NoItems)

FromDecimalRef ==
    /\ pc = "ready"
    /\ \E value \in RawDecimals :
        Value("from_decimal_ref", value, Ok(NormFromDecimalRef(value)), NoText, NoItems)

IntoDecimal ==
    /\ pc = "ready"
    /\ Value("into_decimal", DecimalZero, Ok(DecimalFromNorm(self)), NoText, NoItems)

FromStr ==
    /\ pc = "ready"
    /\ \E s \in Literals :
        Value("from_str", DecimalZero, NormFromStr(s), s, NoItems)

Deserialize ==
    /\ pc = "ready"
    /\ \E s \in Literals \cup {NormSerialize(self)} :
        Value("deserialize", DecimalZero, NormDeserialize(s), s, NoItems)

\* Deserialize from an integer number of the external format.
DeserializeNumber ==
    /\ pc = "ready"
    /\ \E n \in IntPrimitives :
        Value("deserialize", DecimalFromInt(n), MapInto(Ok(DecimalFromInt(n))), NoText, NoItems)

BorshDeserialize ==
    /\ pc = "ready"
    /\ borsh
    /\ \E decoded \in RawDecimals :
        Value("borsh_deserialize", decoded, Ok(NormBorshDeserialize(decoded)), NoText, NoItems)

ConstZero ==
    /\ pc = "ready"
    /\ Value("zero", DecimalZero, Ok(ZERO), NoText, NoItems)

ConstOne ==
    /\ pc = "ready"
    /\ Value("one", DecimalZero, Ok(ONE), NoText, NoItems)

Default ==
    /\ pc = "ready"
    /\ Value("default", DecimalZero, Ok(NormDefault), NoText, NoItems)

Add ==
    /\ pc = "ready"
    /\ \E rhs \in RhsInto(borsh) : Value("add", rhs, NormAdd(self, rhs), NoText, NoItems)

Sub ==
    /\ pc = "ready"
    /\ \E rhs \in RhsInto(borsh) : Value("sub", rhs, NormSub(self, rhs), NoText, NoItems)

Mul ==
    /\ pc = "ready"
    /\ \E rhs \in RhsInto(borsh) : Value("mul", rhs, NormMul(self, rhs), NoText, NoItems)

Div ==
    /\ pc = "ready"
    /\ \E rhs \in RhsInto(borsh) : Value("div", rhs, NormDiv(self, rhs), NoText, NoItems)

Rem ==
    /\ pc = "ready"
    /\ \E rhs \in RhsInto(borsh) : Value("rem", rhs, NormRem(self, rhs), NoText, NoItems)

Neg ==
    /\ pc = "ready"
    /\ Value("neg", DecimalZero, Ok(NormNeg(self)), NoText, NoItems)

AddAssign ==
    /\ pc = "ready"
    /\ \E rhs \in RhsInto(borsh) : Assign("add_assign", rhs, NormAdd(self, rhs))

SubAssign ==
    /\ pc = "ready"
    /\ \E rhs \in RhsInto(borsh) : Assign("sub_assign", rhs, NormSub(self, rhs))

MulAssign ==
    /\ pc = "ready"
    /\ \E rhs \in RhsInto(borsh) : Assign("mul_assign", rhs, NormMul(self, rhs))

DivAssign ==
    /\ pc = "ready"
    /\ \E rhs \in RhsInto(borsh) : Assign("div_assign", rhs, NormDiv(self, rhs))

RemAssign ==
    /\ pc = "ready"
    /\ \E rhs \in RhsInto(borsh) : Assign("rem_assign", rhs, NormRem(self, rhs))

Max ==
    /\ pc = "ready"
    /\ \E other \in OtherInto(borsh) : Value("max", other, Ok(NormMax(self, other)), NoText, NoItems)

Min ==
    /\ pc = "ready"
    /\ \E other \in OtherInto(borsh) : Value("min", other, Ok(NormMin(self, other)), NoText, NoItems)

Sum ==
    /\ pc = "ready"
    /\ \E s \in ItemSeqs : Value("sum", DecimalZero, NormSum(s), NoText, s)

Product ==
    /\ pc = "ready"
    /\ \E s \in ItemSeqs : Value("product", DecimalZero, NormProduct(s), NoText, s)

SetSignNegativeCall ==
    /\ pc = "ready"
    /\ \E negative \in BOOLEAN :
        Returned("set_sign_negative", SetSignNegative(self, negative), DecimalZero,
                        negative, <<>>, "ok", NoText, NoItems, "none")

SetSignPositiveCall ==
    /\ pc = "ready"
    /\ \E positive \in BOOLEAN :
        Returned("set_sign_positive", SetSignPositive(self, positive), DecimalZero,
                        positive, <<>>, "ok", NoText, NoItems, "none")

Compare ==
    /\ pc = "ready"
    /\ \E b \in NormValues(borsh) :
        Returned("cmp", self, b, FALSE, <<>>, "ok", NoText, NoItems, NormCmp(self, b))

Display ==
    /\ pc = "ready"
    /\ Returned("display", self, DecimalZero, FALSE, <<>>, "ok", NormDisplay(self), NoItems, "none")

Serialize ==
    /\ pc = "ready"
    /\ Returned("serialize", self, DecimalZero, FALSE, <<>>, "ok", NormSerialize(self), NoItems, "none")

\* The program goes on: with the receiver, or with the value returned.
Continue(s) ==
    /\ pc = "returned"
    /\ status \in {"ok", "error"}
    /\ pc' = "ready"
    /\ self' = s
    /\ old' = DecimalZero
    /\ arg' = DecimalZero
    /\ flag' = FALSE
    /\ res' = <<>>
    /\ op' = "none"
    /\ status' = "ok"
    /\ text' = NoText
    /\ items' = NoItems
    /\ ord' = "none"
    /\ UNCHANGED borsh

ContinueWithSelf == Continue(self)

ContinueWithResult == res # <<>> /\ Continue(res[1])

Next ==
    \/ FromInt \/ FromDecimal \/ FromDecimalRef \/ IntoDecimal
    \/ FromStr \/ Deserialize \/ DeserializeNumber
    \/ ConstZero \/ ConstOne \/ Default
    \/ Add \/ Sub \/ Mul \/ Div \/ Rem \/ Neg
    \/ AddAssign \/ SubAssign \/ MulAssign \/ DivAssign \/ RemAssign
    \/ Max \/ Min \/ Sum \/ Product
    \/ SetSignNegativeCall \/ SetSignPositiveCall
    \/ Compare \/ Display \/ Serialize
    \/ ContinueWithSelf \/ ContinueWithResult

NextBorsh == Next \/ BorshDeserialize

\* The default build.
Spec == Init /\ [][Next]_vars

\* The build with the borsh feature.
SpecBorsh == InitBorsh /\ [][NextBorsh]_vars

TypeOK ==
    /\ pc \in {"ready", "returned"}
    /\ self \in RawDecimals
    /\ old \in RawDecimals
    /\ arg \in RawDecimals
    /\ \A i \in 1..Len(res) : res[i] \in RawDecimals
    /\ Len(res) <= 1
    /\ status \in {"ok", "error", "overflow", "div_by_zero"}
    /\ self \in NormValues(borsh)

----------------------------------------------------------------------------
(* Properties.                                                             *)

\* The mathematical value of a Decimal, in units of 10^-MaxScale.
MathValue(d) == (IF d.neg THEN -1 ELSE 1) * d.m * Pow10(MaxScale - d.scale)

Abs(x) == IF x < 0 THEN -x ELSE x

\* No smaller scale represents the value exactly; for zero that is scale 0.
MinimalScale(d) == \A s \in 0..(d.scale - 1) : d.m % Pow10(d.scale - s) # 0

\* The outcome of the last call as the engine's result record.
Outcome == [st |-> status, d |-> IF res = <<>> THEN DecimalZero ELSE res[1]]

DivOps == {"div", "rem", "div_assign", "rem_assign"}
AssignOps == {"add_assign", "sub_assign", "mul_assign", "div_assign", "rem_assign"}
BinaryOps == {"add", "sub", "mul", "div", "rem"}
ArithOps == BinaryOps \cup AssignOps \cup {"neg", "sum", "product"}

C2_RepresentationIndependence ==
    (pc = "returned" /\ op = "cmp" /\ MathValue(self) = MathValue(arg))
    => /\ ord = "Equal"
       /\ NormDisplay(self) = NormDisplay(arg)
       /\ NormSerialize(self) = NormSerialize(arg)
       /\ self = arg

\* Reachability of the negative zero: this invariant is violated, by
\* set_sign_negative(true) on ZERO.
NegZeroNotHeld == ~(pc = "ready" /\ self = NegZero)

\* C3: the derived comparison orders NormDecimal values by mathematical
\* value: Less iff the value is smaller, Equal iff the values are equal,
\* Greater iff it is larger (so exactly one of the three holds).
C3_OrderingConsistency ==
    (pc = "returned" /\ op = "cmp")
    => /\ ord \in {"Less", "Equal", "Greater"}
       /\ (ord = "Less") <=> (MathValue(self) < MathValue(arg))
       /\ (ord = "Equal") <=> (MathValue(self) = MathValue(arg))
       /\ (ord = "Greater") <=> (MathValue(self) > MathValue(arg))

\* C3 witness: two negative values of different scales were compared, and
\* the one of larger mantissa is the smaller.
C3_Witness ==
    /\ pc = "returned" /\ op = "cmp" /\ ord = "Less"
    /\ self.neg /\ arg.neg /\ self.scale < arg.scale /\ self.m < arg.m

\* C4: division and modulo by a right-hand operand whose converted value is
\* zero end in the engine's division-by-zero panic: no value is returned,
\* and the compound forms leave the stored value as it was.
C4_DivisionByZeroFails ==
    (pc = "returned" /\ op \in DivOps /\ MathValue(arg) = 0)
    => /\ status = "div_by_zero"
       /\ res = <<>>
       /\ self = old

\* C4 witness: a non-zero value was divided in place by the zero whose sign
\* was forced.
C4_Witness ==
    /\ pc = "returned" /\ op = "div_assign" /\ arg = NegZero
    /\ status = "div_by_zero" /\ ~IsZero(self)

\* C5 (as claimed): +, -, *, negation, their compound forms and the
\* sum/product folds always complete with a result, and / and % complete
\* whenever the right-hand operand is not zero.
C5_OnlyDivisionByZeroFails ==
    (pc = "returned" /\ op \in ArithOps)
    => (op \in DivOps /\ IsZero(arg)) \/ status = "ok"

\* The exact result of the last binary operation lies beyond the engine's
\* largest value.
ExactBeyondRange ==
    LET a == MathValue(old)
        b == MathValue(arg)
        unit == Pow10(MaxScale)
    IN  CASE op \in {"add", "add_assign"} -> Abs(a + b) > MaxMantissa * unit
          [] op \in {"sub", "sub_assign"} -> Abs(a - b) > MaxMantissa * unit
          [] op \in {"mul", "mul_assign"} -> Abs(a * b) > MaxMantissa * unit * unit
          [] op \in {"div", "div_assign"} -> Abs(a) > MaxMantissa * Abs(b)
          [] OTHER -> FALSE

\* C5 (amended): an arithmetic operation ends in one of three ways: with a
\* result, in the division-by-zero panic (exactly when / or % has a zero
\* right-hand operand), or in the engine's overflow panic, which +, -, *
\* and / raise only when the exact result lies beyond the engine's largest
\* value; negation always completes, and % completes for every non-zero
\* right-hand operand.
C5_FailureModes ==
    (pc = "returned" /\ op \in ArithOps)
    => /\ status \in {"ok", "overflow", "div_by_zero"}
       /\ (status = "div_by_zero") <=> (op \in DivOps /\ IsZero(arg))
       /\ (status = "ok" /\ op \notin AssignOps) => res # <<>>
       /\ (status = "overflow" /\ op \in BinaryOps \cup AssignOps) => ExactBeyondRange
       /\ op = "neg" => status = "ok"
       /\ (op \in {"rem", "rem_assign"} /\ ~IsZero(arg)) => status = "ok"

\* C5 witness: the largest value plus one ended in the overflow panic.
C5_Witness ==
    /\ pc = "returned" /\ op = "add" /\ status = "overflow"
    /\ old = Dec(FALSE, MaxMantissa, 0) /\ arg = DecimalOne

\* C6 (as claimed): every deserialization path, serde and borsh, hands the
\* decoded Decimal to normalization before the wrapper is built, so the
\* value returned has no trailing fractional zeros; a failure returns no
\* value.
C6_DeserializationNormalizes ==
    (pc = "returned" /\ op \in {"deserialize", "borsh_deserialize"})
    => /\ status = "ok" => (res # <<>> /\ MinimalScale(res[1]))
       /\ status # "ok" => res = <<>>

\* C7: sum is the left-to-right fold of + from ZERO and product that of *
\* from ONE (stated here from the last element backwards); the empty sum is
\* ZERO, the empty product ONE, the sum of [1,2,3] is 6, the product of
\* [2,3,4] is 24, and every result has minimal scale.
RECURSIVE SumSpec(_)
SumSpec(s) ==
    IF s = <<>> THEN Ok(ZERO)
    ELSE LET p == SumSpec(SubSeq(s, 1, Len(s) - 1))
         IN  IF p.st = "ok" THEN NormAdd(p.d, s[Len(s)]) ELSE p

RECURSIVE ProductSpec(_)
ProductSpec(s) ==
    IF s = <<>> THEN Ok(ONE)
    ELSE LET p == ProductSpec(SubSeq(s, 1, Len(s) - 1))
         IN  IF p.st = "ok" THEN NormMul(p.d, s[Len(s)]) ELSE p

Whole(i) == Dec(FALSE, i, 0)

C7_Aggregation ==
    /\ (pc = "returned" /\ op = "sum")
       => /\ Outcome = SumSpec(items)
          /\ items = <<>> => res = <<ZERO>>
          /\ items = <<Whole(1), Whole(2), Whole(3)>> => res = <<Whole(6)>>
          /\ \A i \in 1..Len(res) : MinimalScale(res[i])
    /\ (pc = "returned" /\ op = "product")
       => /\ Outcome = ProductSpec(items)
          /\ items = <<>> => res = <<ONE>>
          /\ items = <<Whole(2), Whole(3), Whole(4)>> => res = <<Whole(24)>>
          /\ \A i \in 1..Len(res) : MinimalScale(res[i])

\* C7 witness: the sum of [1, 2, 3] was returned as 6.
C7_Witness ==
    /\ pc = "returned" /\ op = "sum"
    /\ items = <<Whole(1), Whole(2), Whole(3)>> /\ res = <<Whole(6)>>

\* C8 (I2): set_sign_negative(flag) and set_sign_positive(flag) set the
\* sign as the flag says and leave mantissa and scale as they were, also
\* on zero (no normalization runs); forcing a non-negative value negative
\* and then positive gives the value back.
C8_SignForcing ==
    /\ (pc = "returned" /\ op = "set_sign_negative")
       => (self.m = old.m /\ self.scale = old.scale /\ self.neg = flag)
    /\ (pc = "returned" /\ op = "set_sign_positive")
       => (self.m = old.m /\ self.scale = old.scale /\ self.neg = ~flag)
    /\ ~self.neg => SetSignPositive(SetSignNegative(self, TRUE), TRUE) = self

\* C8 witness: 5 was forced negative, and -5 was then forced positive.
C8_Witness ==
    /\ pc = "returned" /\ op = "set_sign_positive" /\ flag
    /\ old = Dec(TRUE, 5, 0) /\ self = Whole(5)

\* C9: deserializing the serialized form of a NormDecimal succeeds with a
\* value equal to it, and the serialized form is that of the bare Decimal.
C9_RoundTrip ==
    /\ (pc = "returned" /\ op = "deserialize" /\ text = DecimalSerialize(self))
       => (status = "ok" /\ res # <<>> /\ NormCmp(res[1], self) = "Equal")
    /\ (pc = "returned" /\ op = "serialize")
       => text = DecimalSerialize(DecimalFromNorm(self))
    /\ pc = "ready" => NormDeserialize(NormSerialize(self)) = Ok(Normalize(self))

\* C9 witness: -1.5 was deserialized from its own serialized form "-1.5".
C9_Witness ==
    /\ pc = "returned" /\ op = "deserialize"
    /\ self = Dec(TRUE, 15, 1) /\ text = <<"-", "1", ".", "5">>
    /\ res = <<self>>

\* C10: -a has the magnitude of a and the opposite sign and has minimal
\* scale; negating a zero gives the plain zero (positive, scale 0, shown
\* as "0"), never a negative zero; and -(-a) equals a.
C10_Negation ==
    (pc = "returned" /\ op = "neg")
    => /\ status = "ok" /\ res # <<>>
       /\ MinimalScale(res[1])
       /\ MathValue(res[1]) = -MathValue(self)
       /\ ~IsZero(self) => (res[1].m = self.m /\ res[1].neg = ~self.neg)
       /\ IsZero(self) => (res[1] = DecimalZero /\ NormDisplay(res[1]) = <<"0">>)
       /\ NormCmp(NormNeg(res[1]), self) = "Equal"

\* C10 witness: a zero was negated and the plain zero returned.
C10_Witness ==
    /\ pc = "returned" /\ op = "neg"
    /\ IsZero(self) /\ res = <<DecimalZero>>

====
